---- MODULE Spec2Model ----
(***************************************************************************)
(* Historical kline synchronisation of laibulle/beam-bot (rust/):          *)
(*   - RateLimiter (infrastructure/adapters/rate_limiter.rs)               *)
(*   - SyncAllHistoricalData (use_cases/exchanges/                         *)
(*     sync_all_historycal_data.rs) and the collaborators it calls.        *)
(*                                                                         *)
(* Two state machines share the limiter's fields:                          *)
(*   SpecRL  callers of RateLimiter::acquire, one atomic operation of the  *)
(*           limiter per step (threads of a multi-thread runtime);         *)
(*   Spec    SyncAllHistoricalData::execute: the (pair, interval) futures  *)
(*           that join_all polls, one step per segment between awaits.     *)
(*                                                                         *)
(* Time.  mono is the monotonic clock (std::time::Instant) in ticks of     *)
(* TickSecs seconds; utc is the wall clock (chrono::Utc::now) in units of  *)
(* 30 days, in which the lookback durations of the interval table are      *)
(* whole.                                                                  *)
(***************************************************************************)
EXTENDS Integers, Sequences, FiniteSets, TLC

\* ---------------------------------------------------------------- bounds
\* threads calling acquire() in SpecRL
NumCallers == 2
\* acquire() calls each thread makes in SpecRL
MaxAcquires == 2
\* largest requests_per_minute handed to RateLimiter::new
MaxCapacity == 2
\* trading pairs the exchange lists (get_trading_pairs)
MaxPairs == 1
\* entries of the interval table that are synchronised
NumIntervals == 2
\* calls of execute()
MaxRuns == 2
\* the wall clock stops at this reading
MaxUtc == 2
\* klines one get_klines call returns
MaxKlines == 2
\* resolution of the monotonic clock: seconds per tick
TickSecs == 30
\* the monotonic clock is no longer told apart beyond this many ticks
MaxMono == 5
\* exchange_id values of the rows of trading_pairs
MaxExchanges == 2
\* symbols the clients of the repository save and look up
MaxRepoSymbols == 2

\* ------------------------------------------------------ program constants
\* rate_limiter.rs:14  Duration::from_secs(60)
RefillIntervalSecs == 60

\* Option<T>: None is the empty tuple, Some(v) the one-element tuple
None == <<>>
Some(v) == <<v>>
IsSome(o) == o # <<>>
Unwrap(o) == o[1]

Min(a, b) == IF a < b THEN a ELSE b
Max(a, b) == IF a > b THEN a ELSE b

VARIABLES
    \* RateLimiter
    tokens,          \* AtomicU64 tokens
    last_refill,     \* AtomicU64 last_refill
    tokens_per_refill,
    mono,            \* monotonic clock, ticks
    \* threads calling acquire() (SpecRL)
    rl,              \* caller -> [pc, now, last, cur, calls]
    grants,          \* history: the clock reading of every return of acquire()
    \* collaborators
    utc,             \* wall clock
    registry,        \* trading_pairs table: symbol -> Option<TradingPair>
    \* SyncAllHistoricalData
    exec,            \* execute(): [pc, run, pairs, result]
    total_tasks,     \* progress.total_tasks
    completed_tasks, \* progress.completed_tasks
    current_pair,    \* progress.current_pair
    current_interval,\* progress.current_interval
    task,            \* future of sync_trading_pair_interval, per (pair, interval)
    calls,           \* history: the calls each future has made, with outcomes
    prev,            \* history of the previous execute(): [all_saved, failed_start]
    \* TradingPairRepositoryPostgres (SpecRepo)
    table,           \* the rows of trading_pairs, every exchange_id
    saved,           \* history: (symbol, exchange_id) -> the pair last saved with Ok
    reply,           \* what the last call of the repository returned
    \* the sync_historical_data binary (SpecBin)
    bin,             \* [main, display]: where main() and its progress task are
    \* the locks of the progress label (SpecLabel)
    lab              \* [held, pair_by, interval_by, w, r, r_done]

limiter == <<tokens, last_refill, tokens_per_refill>>
progress == <<total_tasks, completed_tasks, current_pair, current_interval>>
rlvars == <<rl, grants>>
engine == <<utc, registry, exec, total_tasks, completed_tasks, current_pair,
            current_interval, task, calls, prev>>
vars == <<tokens, last_refill, tokens_per_refill, mono, rl, grants,
          utc, registry, exec, total_tasks, completed_tasks, current_pair,
          current_interval, task, calls, prev, table, saved, reply, bin, lab>>

repo == <<table, saved, reply>>

Callers == 1..NumCallers

\* ------------------------------------------------------------ RateLimiter

\* Duration::as_secs on a duration held in milliseconds
AsSecs(ms) == ms \div 1000

\* Instant::elapsed: the time from the instant to the moment of the call, ms
\* (both given in ticks of the monotonic clock)
Elapsed(instant, at) == (at - instant) * TickSecs * 1000

\* The limiter's creation instant measured from the start of the clock, as a
\* limiter that kept its start Instant would read it.
SinceCreationSecs(at) == AsSecs(Elapsed(0, at))

\* `Instant::now().elapsed().as_secs()`: the Instant is created and asked for
\* its age in the same expression, so the age is the sub-second gap between
\* the two clock reads.
NowSecs(at) == AsSecs(Elapsed(at, at))

\* a limiter that starts empty and waits for its first refill
RateLimiterNewEmpty(requests_per_minute, at) ==
    [tokens |-> 0,
     last_refill |-> NowSecs(at),
     tokens_per_refill |-> requests_per_minute]

\* RateLimiter::new(requests_per_minute)
RateLimiterNew(requests_per_minute, at) ==
    [tokens |-> requests_per_minute,
     last_refill |-> NowSecs(at),
     tokens_per_refill |-> requests_per_minute]

\* acquire(), line 31: the refill test
RefillDue(now, last) == now - last >= RefillIntervalSecs

\* fetch_sub(1) in the place of compare_exchange: no test of the value read
FetchSub(value, current) == [ok |-> TRUE, value |-> value - 1]

\* a store of current_tokens - 1 in the place of compare_exchange
CompareExchangeBlind(value, current) == [ok |-> TRUE, value |-> current - 1]

\* acquire(), lines 40-48: tokens.compare_exchange(current_tokens,
\* current_tokens - 1) on an atomic holding `value`
CompareExchange(value, current) ==
    IF value = current THEN [ok |-> TRUE, value |-> current - 1]
                       ELSE [ok |-> FALSE, value |-> value]

RlIdle == [pc |-> "idle", now |-> 0, last |-> 0, cur |-> 0, calls |-> 0]

\* One atomic operation of acquire() by thread c.
\*   idle      the call
\*   read      27-29  now, last_refill.load
\*   refill_t  33-34  tokens.store(tokens_per_refill)
\*   refill_l  35     last_refill.store(now)
\*   load      38     tokens.load
\*   cas       40-51  compare_exchange, return on success
\*   sleep     55     sleep(100 ms), below the clock's resolution
AcquireStep(c) ==
    LET me == rl[c] IN
    CASE me.pc = "idle" ->
            /\ me.calls < MaxAcquires
            /\ rl' = [rl EXCEPT ![c].pc = "read", ![c].calls = @ + 1]
            /\ UNCHANGED <<tokens, last_refill, grants>>
      [] me.pc = "read" ->
            /\ rl' = [rl EXCEPT ![c].now = NowSecs(mono),
                                ![c].last = last_refill,
                                ![c].pc = IF RefillDue(NowSecs(mono), last_refill)
                                          THEN "refill_t" ELSE "load"]
            /\ UNCHANGED <<tokens, last_refill, grants>>
      [] me.pc = "refill_t" ->
            /\ tokens' = tokens_per_refill
            /\ rl' = [rl EXCEPT ![c].pc = "refill_l"]
            /\ UNCHANGED <<last_refill, grants>>
      [] me.pc = "refill_l" ->
            /\ last_refill' = me.now
            /\ rl' = [rl EXCEPT ![c].pc = "load"]
            /\ UNCHANGED <<tokens, grants>>
      [] me.pc = "load" ->
            /\ rl' = [rl EXCEPT ![c].cur = tokens,
                                ![c].pc = IF tokens > 0 THEN "cas" ELSE "sleep"]
            /\ UNCHANGED <<tokens, last_refill, grants>>
      [] me.pc = "cas" ->
            IF CompareExchange(tokens, me.cur).ok
            THEN /\ tokens' = CompareExchange(tokens, me.cur).value
                 /\ grants' = Append(grants, mono)
                 /\ rl' = [rl EXCEPT ![c] = [RlIdle EXCEPT !.calls = me.calls]]
                 /\ UNCHANGED last_refill
            ELSE /\ rl' = [rl EXCEPT ![c].pc = "sleep"]
                 /\ UNCHANGED <<tokens, last_refill, grants>>
      [] me.pc = "sleep" ->
            /\ rl' = [rl EXCEPT ![c].pc = "read"]
            /\ UNCHANGED <<tokens, last_refill, grants>>

Acquire(c) ==
    /\ AcquireStep(c)
    /\ UNCHANGED <<tokens_per_refill, mono>>
    /\ UNCHANGED <<engine, repo, bin, lab>>

\* The monotonic clock advances by one tick.
Tick ==
    /\ mono < MaxMono
    /\ mono' = mono + 1
    /\ UNCHANGED <<tokens, last_refill, tokens_per_refill, rl, grants>>
    /\ UNCHANGED <<engine, repo, bin, lab>>

\* ---------------------------------------------------------- collaborators

\* The symbols of the exchange, in the order exchangeInfo lists them
SymbolList == <<"BTCUSDT", "ETHUSDT", "BNBUSDT">>

Symbols == {SymbolList[i] : i \in 1..Len(SymbolList)}

\* TradingPair, the fields execute() reads or writes.  The adapter builds
\* every listed pair with sync_start_time = sync_end_time = None.
TradingPairNew(symbol) ==
    [symbol |-> symbol, sync_start_time |-> None, sync_end_time |-> None]

\* BinanceAdapter::get_trading_pairs returning Ok: the first n symbols
GetTradingPairs(n) == [i \in 1..n |-> TradingPairNew(SymbolList[i])]

\* find_by_symbol answering from the table whatever the query returned
FindBySymbolStale(reg, symbol, ok) == [ok |-> TRUE, val |-> reg[symbol]]

\* TradingPairRepository::find_by_symbol: Ok(row) or Err
FindBySymbol(reg, symbol, ok) ==
    IF ok THEN [ok |-> TRUE, val |-> reg[symbol]]
          ELSE [ok |-> FALSE, val |-> None]

\* the table emptied and then filled with the one row
SaveReplacing(reg, pair) ==
    [s \in Symbols |-> IF s = pair.symbol THEN Some(pair) ELSE None]

\* TradingPairRepository::save returning Ok: INSERT .. ON CONFLICT (symbol,
\* exchange_id) DO UPDATE SET every column = EXCLUDED
Save(reg, pair) == [reg EXCEPT ![pair.symbol] = Some(pair)]

\* ------------------------------------------- TradingPairRepositoryPostgres

ExchangeIds == 1..MaxExchanges

RepoSymbols == {SymbolList[i] : i \in 1..MaxRepoSymbols}

Keys == RepoSymbols \X ExchangeIds

\* TradingPair as the repository writes and reads it: the key columns and,
\* of the columns every save overwrites, sync_end_time.  The id column is
\* not part of the INSERT; the table assigns it.
RepoPairs ==
    [symbol : RepoSymbols, exchange_id : ExchangeIds, sync_end_time : {None, Some(MaxUtc)}]

RepoPairLists ==
    {<<>>} \cup {<<p>> : p \in RepoPairs} \cup {<<p, q>> : p, q \in RepoPairs}

KeyOf(row) == <<row.symbol, row.exchange_id>>

\* save, lines 41-68: INSERT .. ON CONFLICT (symbol, exchange_id) DO UPDATE
\* SET every other column = EXCLUDED
Upsert(tbl, pair) ==
    IF \E i \in 1..Len(tbl) : KeyOf(tbl[i]) = KeyOf(pair)
    THEN [i \in 1..Len(tbl) |-> IF KeyOf(tbl[i]) = KeyOf(pair) THEN pair ELSE tbl[i]]
    ELSE Append(tbl, pair)

RECURSIVE UpsertAll(_, _)
\* save_all, lines 108-121, every save returning Ok
UpsertAll(tbl, pairs) ==
    IF pairs = <<>> THEN tbl ELSE UpsertAll(Upsert(tbl, Head(pairs)), Tail(pairs))

\* find_by_symbol, lines 127-137: SELECT .. WHERE symbol = $1
SelectBySymbol(tbl, symbol) == {i \in 1..Len(tbl) : tbl[i].symbol = symbol}

\* find_by_symbol, lines 138-140: fetch_optional hands over the first row
\* the query returns, None when it returns none; the query has no ORDER BY,
\* so any selected row can come first
FetchOptional(tbl, selected) ==
    IF selected = {} THEN {None} ELSE {Some(tbl[i]) : i \in selected}

NoReply == [op |-> "none"]

\* save returns: the statement ran, or the database returned an error
RepoSave(pair, ok) ==
    /\ table' = IF ok THEN Upsert(table, pair) ELSE table
    /\ saved' = IF ok THEN [saved EXCEPT ![KeyOf(pair)] = Some(pair)] ELSE saved
    /\ reply' = [op |-> "save", ok |-> ok]
    /\ UNCHANGED <<limiter, mono, rlvars, engine, bin, lab>>

\* save_all, lines 108-121: save after save; the first Err is returned and
\* the pairs after it are not saved (failing = Len + 1: none fails)
RepoSaveAll(pairs, failing) ==
    /\ LET done == SubSeq(pairs, 1, failing - 1) IN
          /\ table' = UpsertAll(table, done)
          /\ saved' = [k \in Keys |->
                         IF \E i \in 1..Len(done) : KeyOf(done[i]) = k
                         THEN Some(done[CHOOSE i \in 1..Len(done) :
                                          /\ KeyOf(done[i]) = k
                                          /\ \A j \in (i + 1)..Len(done) : KeyOf(done[j]) # k])
                         ELSE saved[k]]
    /\ reply' = [op |-> "save_all", ok |-> failing > Len(pairs)]
    /\ UNCHANGED <<limiter, mono, rlvars, engine, bin, lab>>

\* find_by_symbol returns Ok(Some(row)), Ok(None) or Err
RepoFindBySymbol(symbol, ok) ==
    /\ \E val \in FetchOptional(table, SelectBySymbol(table, symbol)) :
          reply' = [op |-> "find_by_symbol", ok |-> ok, symbol |-> symbol,
                    val |-> IF ok THEN val ELSE None]
    /\ UNCHANGED <<table, saved, limiter, mono, rlvars, engine, bin, lab>>

\* find_all, lines 177-227: SELECT of every row, returned as a Vec, or Err
RepoFindAll(ok) ==
    /\ reply' = [op |-> "find_all", ok |-> ok, val |-> IF ok THEN table ELSE <<>>]
    /\ UNCHANGED <<table, saved, limiter, mono, rlvars, engine, bin, lab>>

\* The interval table of with_rate_limit; duration in units of 30 days
\* (Duration::days(30), days(90), days(90), days(365))
IntervalTable ==
    << [interval |-> "1m", duration |-> 1],
       [interval |-> "1h", duration |-> 3],
       [interval |-> "4h", duration |-> 3],
       [interval |-> "1d", duration |-> 12] >>

Intervals == SubSeq(IntervalTable, 1, NumIntervals)

\* Strictly ascending sequences over a set of integers, at most n long
RECURSIVE Ascending(_, _)
Ascending(S, n) ==
    IF n = 0 \/ S = {} THEN {<<>>}
    ELSE {<<>>} \cup
         UNION {{<<x>> \o rest : rest \in Ascending({y \in S : y > x}, n - 1)} : x \in S}

\* The close times that stand for the candles of a window: one closing as
\* the window opens, one closing as it ends, and the candle still open at
\* `end`, which closes after it.
CloseTimes(start, end) == {start, end, end + 1}

\* Timestamp 0 (1970-01-01), in the model's 30-day units before its origin,
\* the moment the engine is built
UnixEpoch == -690

\* Element 6 of a kline array of the response: a JSON integer, or (None) a
\* value that is not one
CloseTimeFields(start, end) == {Some(c) : c \in CloseTimes(start, end)} \cup {None}

\* parse_kline: close_time: arr[6].as_i64().unwrap_or(0)
ParseCloseTime(field) == IF IsSome(field) THEN Unwrap(field) ELSE UnixEpoch

\* What get_klines(symbol, interval, start, end) may return on success: the
\* parsed close times of candles of the window, ascending.
KlineLists(start, end) ==
    Ascending({ParseCloseTime(f) : f \in CloseTimeFields(start, end)}, MaxKlines)

Last(seq) == seq[Len(seq)]

\* ---------------------------------------------------- SyncAllHistoricalData

\* One future per (index into the listing, index into the interval table),
\* in the order flat_map creates them and join_all first polls them.
Tasks == (1..MaxPairs) \X (1..NumIntervals)

TaskIndex(t) == (t[1] - 1) * NumIntervals + t[2]

\* klines_published: FALSE once the publish of "klines:initialized" of the
\* future has returned Err (lines 282-287 log it)
Absent ==
    [pc |-> "absent", sync_end_time |-> 0, sync_start_time |-> 0, klines |-> <<>>,
     klines_published |-> TRUE]

Pending == [Absent EXCEPT !.pc = "pending"]

\* A future that has returned Ok(()): its locals are dropped
Returned(pc) == [Absent EXCEPT !.pc = pc]

Terminal(pc) == pc \in {"done", "skipped", "failed"}

Live(tk) == {t \in Tasks : tk[t].pc # "absent"}

NoResult == [variant |-> "none", msg |-> ""]

\* execute() returning Ok(()) whatever the futures returned
ExecuteResultAlwaysOk(tk) == [variant |-> "Ok", msg |-> ""]

\* execute(), lines 116-124: the value returned once join_all has returned
ExecuteResult(tk) ==
    IF \E t \in Live(tk) : tk[t].pc = "failed"
    THEN [variant |-> "RequestError", msg |-> "Some trading pairs failed to sync"]
    ELSE [variant |-> "Ok", msg |-> ""]

\* try_join_all in the place of join_all: the first Err returns at once
TryJoinAllReturns(tk) ==
    \/ \A t \in Live(tk) : Terminal(tk[t].pc)
    \/ \E t \in Live(tk) : tk[t].pc = "failed"

\* join_all(futures).await returns when every future has returned
JoinAllReturns(tk) == \A t \in Live(tk) : Terminal(tk[t].pc)

\* one future per pair, for the first interval alone
FuturesFirstInterval(trading_pairs_count) ==
    [k \in 1..trading_pairs_count |-> <<k, 1>>]

\* execute(), lines 97-111: trading_pairs.into_iter().flat_map(|pair|
\* self.intervals.iter().map(..)), the futures in the order join_all gets
\* them, each named by the index of its pair and of its interval
Futures(trading_pairs_count) ==
    [k \in 1..(trading_pairs_count * Len(Intervals)) |->
        <<((k - 1) \div Len(Intervals)) + 1, ((k - 1) % Len(Intervals)) + 1>>]

\* the interval table left out of the product
TotalTasksPairsOnly(trading_pairs_count) == trading_pairs_count

\* initialize_progress, line 128
TotalTasks(trading_pairs_count) == trading_pairs_count * Len(Intervals)

\* determine_sync_start_time without the test of line 191: the stored
\* sync_end_time is taken whatever its age
DetermineSyncStartTimeNoFloor(found, sync_end_time, duration) ==
    IF found.ok /\ IsSome(found.val) /\ IsSome(Unwrap(found.val).sync_end_time)
    THEN Unwrap(Unwrap(found.val).sync_end_time)
    ELSE sync_end_time - duration

\* determine_sync_start_time resuming from the stored sync_start_time
DetermineSyncStartTimeFromStart(found, sync_end_time, duration) ==
    LET default == sync_end_time - duration IN
    IF /\ found.ok
       /\ IsSome(found.val)
       /\ IsSome(Unwrap(found.val).sync_start_time)
       /\ Unwrap(Unwrap(found.val).sync_start_time) > default
    THEN Unwrap(Unwrap(found.val).sync_start_time)
    ELSE default

\* determine_sync_start_time, on the result of find_by_symbol
DetermineSyncStartTime(found, sync_end_time, duration) ==
    LET default == sync_end_time - duration IN
    IF /\ found.ok
       /\ IsSome(found.val)
       /\ IsSome(Unwrap(found.val).sync_end_time)
       /\ Unwrap(Unwrap(found.val).sync_end_time) > default
    THEN Unwrap(Unwrap(found.val).sync_end_time)
    ELSE default

\* the skip test with > in place of >=
AlreadyUpToDateStrict(sync_start_time, sync_end_time) == sync_start_time > sync_end_time

\* sync_trading_pair_interval, line 160: the skip test
AlreadyUpToDate(sync_start_time, sync_end_time) == sync_start_time >= sync_end_time

\* the record with sync_end_time taken from the window, candles or not
UpdatedPairEndAtNow(pair, klines, sync_start_time, sync_end_time) ==
    [pair EXCEPT !.sync_start_time = Some(sync_start_time),
                 !.sync_end_time = Some(sync_end_time)]

\* the record without the else branch of lines 298-302
UpdatedPairUnsetWhenEmpty(pair, klines, sync_start_time, sync_end_time) ==
    IF klines # <<>>
    THEN [pair EXCEPT !.sync_end_time = Some(Last(klines)),
                      !.sync_start_time = Some(sync_start_time)]
    ELSE pair

\* save_klines_and_update_pair, lines 291-302: the record that is saved
UpdatedPair(pair, klines, sync_start_time, sync_end_time) ==
    IF klines # <<>>
    THEN [pair EXCEPT !.sync_end_time = Some(Last(klines)),
                      !.sync_start_time = IF pair.sync_start_time = None
                                          THEN Some(sync_start_time) ELSE @]
    ELSE [pair EXCEPT !.sync_start_time = Some(sync_start_time),
                      !.sync_end_time = Some(sync_end_time)]

\* acquire() returning at once, the limiter left as it is
AcquirePassFree(now) ==
    [tokens |-> tokens, last_refill |-> last_refill, granted |-> TRUE]

\* One pass of the loop of RateLimiter::acquire, lines 27-55, run without
\* interruption (the futures of join_all share one thread, and the loop
\* awaits only in its sleep).
AcquirePass(now) ==
    LET refill == RefillDue(now, last_refill)
        have == IF refill THEN tokens_per_refill ELSE tokens
    IN [tokens |-> IF have > 0 THEN have - 1 ELSE have,
        last_refill |-> IF refill THEN now ELSE last_refill,
        granted |-> have > 0]

\* What is remembered of an execute() that has returned: whether it returned
\* Ok with every future having saved its pair, and the sync_start_time of
\* each future that failed.
PrevOf(ex, tk, cl) ==
    [all_saved |-> /\ ex.result.variant = "Ok"
                   /\ Live(tk) # {}
                   /\ \A t \in Live(tk) : cl[t] # <<>> /\ cl[t][Len(cl[t]) - 1] = "save_ok",
     failed_start |-> [t \in Tasks |-> IF tk[t].pc = "failed"
                                       THEN Some(tk[t].sync_start_time) ELSE None]]

\* a publish error returned as the error of the future
PublishedKlinesPropagated(tsk, ok) ==
    IF ok THEN [tsk EXCEPT !.pc = "saving"]
          ELSE [tsk EXCEPT !.pc = "failed", !.klines = <<>>, !.klines_published = FALSE]

\* save_klines_and_update_pair, lines 271-288: `if let Err(e) = publish(..)`
\* logs the error; the future goes on to line 290 either way
PublishedKlines(tsk, ok) == [tsk EXCEPT !.pc = "saving", !.klines_published = ok]

\* the store error logged and passed over, as the registry error is
OnStoreErrSwallowed(tsk) == [tsk EXCEPT !.pc = "publishing_klines"]

\* save_klines_and_update_pair, lines 257-269: `return Err(..)`
OnStoreErr(tsk) == [tsk EXCEPT !.pc = "failed", !.klines = <<>>]

\* save returning Err handed on as the future's Err
OnSaveErrPropagated(tsk) == [tsk EXCEPT !.pc = "failed", !.klines = <<>>]

\* the pair event published whatever save returned
OnSaveErrPublishes(tsk) == [tsk EXCEPT !.pc = "publishing_pair", !.klines = <<>>]

\* save_klines_and_update_pair, lines 304-309: the Err of save is logged; the
\* future goes on to lines 326-327 and returns Ok(())
OnSaveErr(tsk) == Returned("done")

\* lines 276-281: the topic of the publish after save_klines returned Ok
KlinesTopic == "klines:initialized"

\* lines 311-316: the topic of the publish after save returned Ok
PairTopic == "trading_pairs:initialized"

\* the sync times updated before the klines are stored
FetchedKlinesSaveFirst(tsk, klines) == [tsk EXCEPT !.pc = "saving", !.klines = klines]

\* fetch_and_save_klines, lines 218-244: get_klines returned Ok; the klines
\* are handed to save_klines_and_update_pair, which calls save_klines
FetchedKlines(tsk, klines) == [tsk EXCEPT !.pc = "storing", !.klines = klines]

\* get_klines returning Err answered by another acquire() and get_klines
OnFetchErrRetry(tsk) == [tsk EXCEPT !.pc = "acquiring"]

\* fetch_and_save_klines, line 226: `?` returns the Err of get_klines
OnFetchErr(tsk) == [tsk EXCEPT !.pc = "failed"]

\* the futures awaited one after the other
MayStartInTurn(tk, t) ==
    \A u \in Tasks : TaskIndex(u) < TaskIndex(t) => tk[u].pc \in {"absent", "done", "skipped", "failed"}

\* execute(), line 113: join_all polls the futures in the order it got
\* them; a future is first polled once those before it have been
MayStart(tk, t) ==
    \A u \in Tasks : TaskIndex(u) < TaskIndex(t) => tk[u].pc # "pending"

Called(t, what) == calls' = [calls EXCEPT ![t] = Append(@, what)]

\* execute() is called, on a new engine or again on the same one
ExecuteCall ==
    /\ exec.pc \in {"idle", "returned"}
    /\ exec.run < MaxRuns
    /\ exec' = [pc |-> "listing", run |-> exec.run + 1, pairs |-> <<>>, result |-> NoResult]
    /\ prev' = PrevOf(exec, task, calls)
    /\ task' = [t \in Tasks |-> Absent]
    /\ calls' = [t \in Tasks |-> <<>>]
    /\ UNCHANGED <<utc, registry, progress, limiter, mono, rlvars, repo, bin, lab>>

\* line 88: get_trading_pairs returns Ok
GetTradingPairsOk(n) ==
    /\ exec.pc = "listing"
    /\ exec' = [exec EXCEPT !.pc = "init_completed", !.pairs = GetTradingPairs(n)]
    /\ UNCHANGED <<utc, registry, progress, task, calls, prev, limiter, mono, rlvars, repo, bin, lab>>

\* the listing made behind the rate limiter: a token is taken before the
\* call that fails
GetTradingPairsErrPaid(variant) ==
    /\ exec.pc = "listing"
    /\ tokens > 0
    /\ tokens' = tokens - 1
    /\ exec' = [exec EXCEPT !.pc = "returned",
                            !.result = [variant |-> variant, msg |-> "exchangeInfo"]]
    /\ UNCHANGED <<utc, registry, progress, task, calls, prev, last_refill,
                   tokens_per_refill, mono, rlvars, repo, bin, lab>>

\* line 88: get_trading_pairs returns Err, which `?` returns
GetTradingPairsErr(variant) ==
    /\ exec.pc = "listing"
    /\ exec' = [exec EXCEPT !.pc = "returned",
                            !.result = [variant |-> variant, msg |-> "exchangeInfo"]]
    /\ UNCHANGED <<utc, registry, progress, task, calls, prev, limiter, mono, rlvars, repo, bin, lab>>

\* initialize_progress, line 129: completed_tasks.store(0)
InitializeProgressCompleted ==
    /\ exec.pc = "init_completed"
    /\ completed_tasks' = 0
    /\ exec' = [exec EXCEPT !.pc = "init_total"]
    /\ UNCHANGED <<utc, registry, total_tasks, current_pair, current_interval,
                   task, calls, prev, limiter, mono, rlvars, repo, bin, lab>>

\* initialize_progress, lines 130-132: total_tasks.store; then lines 93-113:
\* the futures are built and handed to join_all
InitializeProgressTotal ==
    /\ exec.pc = "init_total"
    /\ total_tasks' = TotalTasks(Len(exec.pairs))
    /\ LET futures == Futures(Len(exec.pairs)) IN
          task' = [t \in Tasks |-> IF \E k \in 1..Len(futures) : futures[k] = t
                                   THEN Pending ELSE Absent]
    /\ exec' = [exec EXCEPT !.pc = "joining"]
    /\ UNCHANGED <<utc, registry, completed_tasks, current_pair, current_interval,
                   calls, prev, limiter, mono, rlvars, repo, bin, lab>>

\* lines 143-158: the label, Utc::now(), and the call of find_by_symbol
TaskStart(t) ==
    /\ exec.pc = "joining"
    /\ task[t].pc = "pending"
    /\ MayStart(task, t)
    /\ \E d \in 0..1 :
          /\ utc + d <= MaxUtc
          /\ utc' = utc + d
    /\ current_pair' = exec.pairs[t[1]].symbol
    /\ current_interval' = Intervals[t[2]].interval
    /\ task' = [task EXCEPT ![t].pc = "finding", ![t].sync_end_time = utc']
    /\ Called(t, "label")
    /\ UNCHANGED <<registry, exec, total_tasks, completed_tasks, prev, limiter, mono, rlvars, repo, bin, lab>>

\* lines 190-199 and 160-179: find_by_symbol returns; skip, or go on to
\* fetch_and_save_klines up to acquire()
TaskFound(t, ok) ==
    /\ task[t].pc = "finding"
    /\ LET found == FindBySymbol(registry, exec.pairs[t[1]].symbol, ok)
           start == DetermineSyncStartTime(found, task[t].sync_end_time,
                                           Intervals[t[2]].duration)
       IN IF AlreadyUpToDate(start, task[t].sync_end_time)
          THEN /\ task' = [task EXCEPT ![t] = Returned("skipped")]
               /\ completed_tasks' = completed_tasks + 1
          ELSE /\ task' = [task EXCEPT ![t].pc = "acquiring", ![t].sync_start_time = start]
               /\ UNCHANGED completed_tasks
    /\ Called(t, "find")
    /\ UNCHANGED <<utc, registry, exec, total_tasks, current_pair, current_interval,
                   prev, limiter, mono, rlvars, repo, bin, lab>>

\* line 216: one pass of acquire(); with a token, lines 218-226 call get_klines
TaskAcquire(t) ==
    /\ task[t].pc = "acquiring"
    /\ LET pass == AcquirePass(NowSecs(mono)) IN
          /\ tokens' = pass.tokens
          /\ last_refill' = pass.last_refill
          /\ IF pass.granted
             THEN /\ task' = [task EXCEPT ![t].pc = "fetching"]
                  /\ Called(t, "acquire")
             ELSE /\ task' = [task EXCEPT ![t].pc = "sleeping"]
                  /\ UNCHANGED calls
    /\ UNCHANGED <<utc, registry, exec, progress, prev, tokens_per_refill, mono, rlvars, repo, bin, lab>>

\* rate_limiter.rs:55: the sleep ends, d ticks of the monotonic clock later
TaskWake(t, d) ==
    /\ task[t].pc = "sleeping"
    /\ mono' = Min(mono + d, MaxMono)
    /\ task' = [task EXCEPT ![t].pc = "acquiring"]
    /\ UNCHANGED <<utc, registry, exec, progress, calls, prev, limiter, rlvars, repo, bin, lab>>

\* lines 218-245: get_klines returns Ok; save_klines is called
TaskFetchOk(t, klines) ==
    /\ task[t].pc = "fetching"
    /\ klines \in KlineLists(task[t].sync_start_time, task[t].sync_end_time)
    /\ task' = [task EXCEPT ![t] = FetchedKlines(@, klines)]
    /\ Called(t, "fetch_ok")
    /\ UNCHANGED <<utc, registry, exec, progress, prev, limiter, mono, rlvars, repo, bin, lab>>

\* line 226: get_klines returns Err, which `?` returns
TaskFetchErr(t) ==
    /\ task[t].pc = "fetching"
    /\ task' = [task EXCEPT ![t] = OnFetchErr(@)]
    /\ Called(t, "fetch_err")
    /\ UNCHANGED <<utc, registry, exec, progress, prev, limiter, mono, rlvars, repo, bin, lab>>

\* lines 257-282: save_klines returns Ok; "klines:initialized" is published
TaskStoreOk(t) ==
    /\ task[t].pc = "storing"
    /\ task' = [task EXCEPT ![t].pc = "publishing_klines"]
    /\ Called(t, "append_ok")
    /\ UNCHANGED <<utc, registry, exec, progress, prev, limiter, mono, rlvars, repo, bin, lab>>

\* lines 257-269: save_klines returns Err
TaskStoreErr(t) ==
    /\ task[t].pc = "storing"
    /\ task' = [task EXCEPT ![t] = OnStoreErr(@)]
    /\ Called(t, "append_err")
    /\ UNCHANGED <<utc, registry, exec, progress, prev, limiter, mono, rlvars, repo, bin, lab>>

\* lines 276-304: publish returns (Ok or Err); the updated pair is built and
\* save is called
TaskPublishedKlines(t, ok) ==
    /\ task[t].pc = "publishing_klines"
    /\ task' = [task EXCEPT ![t] = PublishedKlines(@, ok)]
    /\ Called(t, KlinesTopic)
    /\ UNCHANGED <<utc, registry, exec, progress, prev, limiter, mono, rlvars, repo, bin, lab>>

\* lines 304-317: save returns Ok (the row is written);
\* "trading_pairs:initialized" is published
TaskSaveOk(t) ==
    /\ task[t].pc = "saving"
    /\ registry' = Save(registry, UpdatedPair(exec.pairs[t[1]], task[t].klines,
                                              task[t].sync_start_time,
                                              task[t].sync_end_time))
    /\ task' = [task EXCEPT ![t].pc = "publishing_pair", ![t].klines = <<>>]
    /\ Called(t, "save_ok")
    /\ UNCHANGED <<utc, exec, progress, prev, limiter, mono, rlvars, repo, bin, lab>>

\* lines 304-309 and 326-327: save returns Err; completed_tasks, Ok(())
TaskSaveErr(t) ==
    /\ task[t].pc = "saving"
    /\ task' = [task EXCEPT ![t] = OnSaveErr(@)]
    /\ completed_tasks' = completed_tasks + 1
    /\ Called(t, "save_err")
    /\ UNCHANGED <<utc, registry, exec, total_tasks, current_pair, current_interval,
                   prev, limiter, mono, rlvars, repo, bin, lab>>

\* lines 311-327: publish returns (Ok or Err); completed_tasks, Ok(())
TaskPublishedPair(t, ok) ==
    /\ task[t].pc = "publishing_pair"
    /\ task' = [task EXCEPT ![t] = Returned("done")]
    /\ completed_tasks' = completed_tasks + 1
    /\ Called(t, PairTopic)
    /\ UNCHANGED <<utc, registry, exec, total_tasks, current_pair, current_interval,
                   prev, limiter, mono, rlvars, repo, bin, lab>>

\* lines 113-124: join_all returns, execute() returns
ExecuteReturn ==
    /\ exec.pc = "joining"
    /\ JoinAllReturns(task)
    /\ exec' = [exec EXCEPT !.pc = "returned", !.result = ExecuteResult(task)]
    /\ UNCHANGED <<utc, registry, progress, task, calls, prev, limiter, mono, rlvars, repo, bin, lab>>

\* The next run of the binary: with_rate_limit builds a new engine, with a
\* new limiter and new progress counters (lines 41-79)
WithRateLimit ==
    /\ exec.pc = "returned"
    /\ exec.run < MaxRuns
    /\ LET l == RateLimiterNew(tokens_per_refill, mono) IN
          /\ tokens' = l.tokens
          /\ last_refill' = l.last_refill
    /\ total_tasks' = 0
    /\ completed_tasks' = 0
    /\ current_pair' = ""
    /\ current_interval' = ""
    /\ exec' = [exec EXCEPT !.pc = "idle"]
    /\ UNCHANGED <<utc, registry, task, calls, prev, tokens_per_refill, mono, rlvars, repo, bin, lab>>

\* ------------------------------------------- the sync_historical_data binary

RECURSIVE SaveAll(_, _)
\* TradingPairRepository::save_all with every save returning Ok
\* (trading_pair_repository_postgres.rs, lines 108-121)
SaveAll(reg, pairs) ==
    IF pairs = <<>> THEN reg ELSE SaveAll(Save(reg, Head(pairs)), Tail(pairs))

\* The engine used as a library: no main(), no progress task
NoBinary == [main |-> "library", display |-> "none"]

\* The row an earlier process saved for a symbol
StoredRow(symbol) ==
    [symbol |-> symbol, sync_start_time |-> Some(0 - 1), sync_end_time |-> Some(0)]

\* The trading_pairs table as earlier processes can have left it: a symbol
\* the exchange lists, and the first one it no longer lists, has no row or
\* the row saved then
StoredRegistries ==
    {reg \in [Symbols -> {None} \cup {Some(StoredRow(s)) : s \in Symbols}] :
        \A i \in 1..Len(SymbolList) :
            /\ reg[SymbolList[i]] \in {None, Some(StoredRow(SymbolList[i]))}
            /\ i > MaxPairs + 1 => reg[SymbolList[i]] = None}

\* main, lines 54-56: SyncTradingPairsUseCase::execute returns Ok
\* (sync_trading_pairs.rs, lines 18-22: get_trading_pairs, save_all)
SyncTradingPairsOk(n) ==
    /\ bin.main = "start"
    /\ registry' = SaveAll(registry, GetTradingPairs(n))
    /\ bin' = [bin EXCEPT !.main = "synced"]
    /\ UNCHANGED <<utc, exec, progress, task, calls, prev, limiter, mono, rlvars, repo, lab>>

\* main, lines 56-61: SyncTradingPairsUseCase::execute returns Err, from
\* get_trading_pairs (n = 0) or from the save that follows `done` saves of
\* the n pairs listed; main returns
SyncTradingPairsErr(n, done) ==
    /\ bin.main = "start"
    /\ registry' = SaveAll(registry, SubSeq(GetTradingPairs(n), 1, done))
    /\ bin' = [bin EXCEPT !.main = "exited"]
    /\ UNCHANGED <<utc, exec, progress, task, calls, prev, limiter, mono, rlvars, repo, lab>>

\* main, lines 65-120: with_rate_limit builds the engine (a new limiter, new
\* progress counters) and the progress task is spawned
MainWithRateLimit ==
    /\ bin.main = "synced"
    /\ LET l == RateLimiterNew(tokens_per_refill, mono) IN
          /\ tokens' = l.tokens
          /\ last_refill' = l.last_refill
    /\ total_tasks' = 0
    /\ completed_tasks' = 0
    /\ current_pair' = ""
    /\ current_interval' = ""
    /\ bin' = [main |-> "running", display |-> "waiting"]
    /\ UNCHANGED <<utc, registry, exec, task, calls, prev, tokens_per_refill, mono,
                   rlvars, repo, lab>>

\* The test that ends the loop of the progress task, line 113
DisplayDone(completed, total) == completed >= total /\ total > 0

\* progress task, lines 82-84: total_tasks is no longer 0, the first loop ends
DisplayStart ==
    /\ bin.display = "waiting"
    /\ total_tasks # 0
    /\ bin' = [bin EXCEPT !.display = "looping"]
    /\ UNCHANGED <<engine, limiter, mono, rlvars, repo, lab>>

\* progress task, lines 86-119: an iteration that reads the counters, prints
\* and finds the test of line 113 true (any other iteration sleeps and
\* leaves the task where it is)
DisplayBreak ==
    /\ bin.display = "looping"
    /\ DisplayDone(completed_tasks, total_tasks)
    /\ bin' = [bin EXCEPT !.display = "done"]
    /\ UNCHANGED <<engine, limiter, mono, rlvars, repo, lab>>

\* main, lines 123-130: execute() has returned and progress_task.await
\* returns; main returns
MainReturn ==
    /\ bin.main = "running"
    /\ exec.pc = "returned"
    /\ bin.display = "done"
    /\ bin' = [bin EXCEPT !.main = "exited"]
    /\ UNCHANGED <<engine, limiter, mono, rlvars, repo, lab>>

\* The progress task and the constructor of SyncProgress, named as the
\* futures are: who holds a lock, who wrote a label
ProgressTask == <<0, 0>>
SyncProgressNew == <<0, 1>>
Threads == Tasks \cup {ProgressTask}

\* SyncProgress as constructed, lines 73-78: both mutexes free and both
\* strings empty; no future in its label block, the progress task at the top
\* of its loop.  held: the holder of each mutex; pair_by, interval_by: who
\* wrote the string now in each mutex
NoLabel ==
    [held |-> [current_pair |-> {}, current_interval |-> {}],
     pair_by |-> SyncProgressNew,
     interval_by |-> SyncProgressNew,
     w |-> [t \in Tasks |-> "start"],
     r |-> "top",
     r_done |-> FALSE]

\* What is left of the holders when thread x drops its guards
Dropped(held, x) == [k \in DOMAIN held |-> held[k] \ {x}]

\* the progress task taking current_interval first
ReaderLocksReversed(k) == IF k = 1 THEN "current_interval" ELSE "current_pair"

\* progress task, lines 89-90: the k-th mutex it locks
ReaderLocks(k) == IF k = 1 THEN "current_pair" ELSE "current_interval"

\* line 113: join_all polls the futures in order; a future is polled for the
\* first time once those before it have been
PolledInTurn(t) ==
    /\ exec.pc = "joining"
    /\ task[t].pc = "pending"
    /\ \A u \in Tasks : TaskIndex(u) < TaskIndex(t) =>
          (task[u].pc # "pending" \/ lab.w[u] # "start")

\* line 144: current_pair.lock().await finds the mutex held; the future waits
LabelWaitPair(t) ==
    /\ PolledInTurn(t)
    /\ lab.w[t] = "start"
    /\ lab.held.current_pair # {}
    /\ lab' = [lab EXCEPT !.w[t] = "waiting"]
    /\ UNCHANGED <<engine, limiter, mono, rlvars, repo, bin>>

\* line 144: current_pair.lock().await returns the guard
LabelLockPair(t) ==
    /\ PolledInTurn(t)
    /\ lab.w[t] \in {"start", "waiting"}
    /\ lab.held.current_pair = {}
    /\ lab' = [lab EXCEPT !.w[t] = "pair_locked", !.held.current_pair = {t}]
    /\ UNCHANGED <<engine, limiter, mono, rlvars, repo, bin>>

\* line 145: *current_pair = pair.symbol.clone()
LabelWritePair(t) ==
    /\ lab.w[t] = "pair_locked"
    /\ current_pair' = exec.pairs[t[1]].symbol
    /\ lab' = [lab EXCEPT !.w[t] = "pair_written", !.pair_by = t]
    /\ UNCHANGED <<utc, registry, exec, total_tasks, completed_tasks, current_interval,
                   task, calls, prev, limiter, mono, rlvars, repo, bin>>

\* line 146: current_interval.lock().await returns the guard
LabelLockInterval(t) ==
    /\ lab.w[t] = "pair_written"
    /\ lab.held.current_interval = {}
    /\ lab' = [lab EXCEPT !.w[t] = "interval_locked", !.held.current_interval = {t}]
    /\ UNCHANGED <<engine, limiter, mono, rlvars, repo, bin>>

\* line 147: *current_interval = interval_config.interval.clone()
LabelWriteInterval(t) ==
    /\ lab.w[t] = "interval_locked"
    /\ current_interval' = Intervals[t[2]].interval
    /\ lab' = [lab EXCEPT !.w[t] = "interval_written", !.interval_by = t]
    /\ UNCHANGED <<utc, registry, exec, total_tasks, completed_tasks, current_pair,
                   task, calls, prev, limiter, mono, rlvars, repo, bin>>

\* lines 148-158: the block ends and both guards drop; Utc::now(), and the
\* call of find_by_symbol
LabelRelease(t) ==
    /\ lab.w[t] = "interval_written"
    /\ \E d \in 0..1 :
          /\ utc + d <= MaxUtc
          /\ utc' = utc + d
    /\ task' = [task EXCEPT ![t].pc = "finding", ![t].sync_end_time = utc']
    /\ Called(t, "label")
    /\ lab' = [lab EXCEPT !.w[t] = "released", !.held = Dropped(@, t)]
    /\ UNCHANGED <<registry, exec, progress, prev, limiter, mono, rlvars, repo, bin>>

\* lines 143-158 of a future, one atomic operation or await at a time
LabelStep(t) ==
    \/ LabelWaitPair(t)
    \/ LabelLockPair(t)
    \/ LabelWritePair(t)
    \/ LabelLockInterval(t)
    \/ LabelWriteInterval(t)
    \/ LabelRelease(t)

\* progress task, lines 87-88: the counters are loaded
DisplayLoad ==
    /\ bin.display = "looping"
    /\ lab.r = "top"
    /\ lab' = [lab EXCEPT !.r = "loaded",
                          !.r_done = DisplayDone(completed_tasks, total_tasks)]
    /\ UNCHANGED <<engine, limiter, mono, rlvars, repo, bin>>

\* progress task, lines 89-90: the k-th lock().await returns the guard
DisplayLock(k) ==
    /\ bin.display = "looping"
    /\ lab.r = (IF k = 1 THEN "loaded" ELSE "locked1")
    /\ lab.held[ReaderLocks(k)] = {}
    /\ lab' = [lab EXCEPT !.r = (IF k = 1 THEN "locked1" ELSE "locked2"),
                          !.held[ReaderLocks(k)] = {ProgressTask}]
    /\ UNCHANGED <<engine, limiter, mono, rlvars, repo, bin>>

\* progress task, lines 92-116: the line is printed, the test of line 113 is
\* false and the task sleeps, the guards still alive
DisplaySleep ==
    /\ bin.display = "looping"
    /\ lab.r = "locked2"
    /\ ~lab.r_done
    /\ lab' = [lab EXCEPT !.r = "sleeping"]
    /\ UNCHANGED <<engine, limiter, mono, rlvars, repo, bin>>

\* progress task, lines 116-117: the sleep is over, the iteration ends and
\* both guards drop
DisplayWake ==
    /\ bin.display = "looping"
    /\ lab.r = "sleeping"
    /\ lab' = [lab EXCEPT !.r = "top", !.held = Dropped(@, ProgressTask)]
    /\ UNCHANGED <<engine, limiter, mono, rlvars, repo, bin>>

\* progress task, lines 92-114: the line is printed, the test of line 113 is
\* true; break drops both guards
DisplayBreakLocked ==
    /\ bin.display = "looping"
    /\ lab.r = "locked2"
    /\ lab.r_done
    /\ bin' = [bin EXCEPT !.display = "done"]
    /\ lab' = [lab EXCEPT !.r = "out", !.held = Dropped(@, ProgressTask)]
    /\ UNCHANGED <<engine, limiter, mono, rlvars, repo>>

Init ==
    /\ mono = 0
    /\ \E requests_per_minute \in 1..MaxCapacity :
          LET l == RateLimiterNew(requests_per_minute, 0) IN
          /\ tokens = l.tokens
          /\ last_refill = l.last_refill
          /\ tokens_per_refill = l.tokens_per_refill
    /\ rl = [c \in Callers |-> RlIdle]
    /\ grants = <<>>
    /\ utc = 0
    /\ registry = [s \in Symbols |-> None]
    /\ exec = [pc |-> "idle", run |-> 0, pairs |-> <<>>, result |-> NoResult]
    /\ total_tasks = 0
    /\ completed_tasks = 0
    /\ current_pair = ""
    /\ current_interval = ""
    /\ task = [t \in Tasks |-> Absent]
    /\ calls = [t \in Tasks |-> <<>>]
    /\ prev = [all_saved |-> FALSE, failed_start |-> [t \in Tasks |-> None]]
    /\ table = <<>>
    /\ saved = [k \in Keys |-> None]
    /\ reply = NoReply
    /\ bin = NoBinary
    /\ lab = NoLabel

TaskStep(t) ==
    \/ TaskStart(t)
    \/ \E ok \in BOOLEAN : TaskFound(t, ok)
    \/ TaskAcquire(t)
    \/ \E d \in 0..1 : TaskWake(t, d)
    \/ \E klines \in KlineLists(task[t].sync_start_time, task[t].sync_end_time) :
          TaskFetchOk(t, klines)
    \/ TaskFetchErr(t)
    \/ TaskStoreOk(t)
    \/ TaskStoreErr(t)
    \/ \E ok \in BOOLEAN : TaskPublishedKlines(t, ok)
    \/ TaskSaveOk(t)
    \/ TaskSaveErr(t)
    \/ \E ok \in BOOLEAN : TaskPublishedPair(t, ok)

\* The steps of a call of execute(), and the binary building a new engine
RunStep ==
    \/ \E n \in 0..MaxPairs : GetTradingPairsOk(n)
    \/ \E variant \in {"RequestError", "ParseError"} : GetTradingPairsErr(variant)
    \/ InitializeProgressCompleted
    \/ InitializeProgressTotal
    \/ \E t \in Tasks : TaskStep(t)
    \/ ExecuteReturn
    \/ WithRateLimit

Next ==
    \/ ExecuteCall
    \/ RunStep

Spec == Init /\ [][Next]_vars

\* The process of the binary: execute() is called once
NextOnce ==
    \/ exec.run = 0 /\ ExecuteCall
    \/ RunStep

\* One call of execute() in which every call that execute() awaits returns,
\* every future that can run is polled, and the monotonic clock keeps
\* advancing under a sleeping future.
SpecFair ==
    /\ Init /\ [][NextOnce]_vars
    /\ \A t \in Tasks : WF_vars(TaskStep(t)) /\ SF_vars(TaskWake(t, 1))
    /\ WF_vars(\E n \in 0..MaxPairs : GetTradingPairsOk(n))
    /\ WF_vars(InitializeProgressCompleted)
    /\ WF_vars(InitializeProgressTotal)
    /\ WF_vars(ExecuteReturn)


\* execute() and its futures
EngineStep ==
    \/ \E n \in 0..MaxPairs : GetTradingPairsOk(n)
    \/ \E variant \in {"RequestError", "ParseError"} : GetTradingPairsErr(variant)
    \/ InitializeProgressCompleted
    \/ InitializeProgressTotal
    \/ \E t \in Tasks : TaskStep(t)
    \/ ExecuteReturn

\* One process of sync_historical_data
NextBin ==
    \/ \E n \in 0..MaxPairs : SyncTradingPairsOk(n)
    \/ \E n \in 0..MaxPairs : \E done \in 0..(n - 1) : SyncTradingPairsErr(n, done)
    \/ SyncTradingPairsErr(0, 0)
    \/ MainWithRateLimit
    \/ bin.main = "running" /\ exec.pc = "idle" /\ ExecuteCall
    \/ bin.main = "running" /\ EngineStep
    \/ DisplayStart
    \/ DisplayBreak
    \/ MainReturn

\* The process starts on the databases as earlier processes left them
InitBin ==
    /\ mono = 0
    /\ \E requests_per_minute \in 1..MaxCapacity :
          LET l == RateLimiterNew(requests_per_minute, 0) IN
          /\ tokens = l.tokens
          /\ last_refill = l.last_refill
          /\ tokens_per_refill = l.tokens_per_refill
    /\ rl = [c \in Callers |-> RlIdle]
    /\ grants = <<>>
    /\ utc = 0
    /\ registry \in StoredRegistries
    /\ exec = [pc |-> "idle", run |-> 0, pairs |-> <<>>, result |-> NoResult]
    /\ total_tasks = 0
    /\ completed_tasks = 0
    /\ current_pair = ""
    /\ current_interval = ""
    /\ task = [t \in Tasks |-> Absent]
    /\ calls = [t \in Tasks |-> <<>>]
    /\ prev = [all_saved |-> FALSE, failed_start |-> [t \in Tasks |-> None]]
    /\ table = <<>>
    /\ saved = [k \in Keys |-> None]
    /\ reply = NoReply
    /\ bin = [main |-> "start", display |-> "none"]
    /\ lab = NoLabel

SpecBin == InitBin /\ [][NextBin]_vars

\* One process in which every awaited call returns, every future that can
\* run and the progress task are polled, and main goes on
SpecBinFair ==
    /\ InitBin /\ [][NextBin]_vars
    /\ \A t \in Tasks : WF_vars(TaskStep(t)) /\ SF_vars(TaskWake(t, 1))
    /\ WF_vars(\E n \in 0..MaxPairs : SyncTradingPairsOk(n))
    /\ WF_vars(MainWithRateLimit)
    /\ WF_vars(bin.main = "running" /\ exec.pc = "idle" /\ ExecuteCall)
    /\ WF_vars(\E n \in 0..MaxPairs : GetTradingPairsOk(n))
    /\ WF_vars(InitializeProgressCompleted)
    /\ WF_vars(InitializeProgressTotal)
    /\ WF_vars(ExecuteReturn)
    /\ WF_vars(DisplayStart)
    /\ WF_vars(DisplayBreak)
    /\ WF_vars(MainReturn)

\* The future whose awaited call may never return
HungTask == <<1, 1>>

\* One call of execute() in which every future is polled and every call
\* returns but those the future HungTask awaits, which may never return
SpecHung ==
    /\ Init /\ [][NextOnce]_vars
    /\ \A t \in Tasks : WF_vars(TaskStart(t))
    /\ \A t \in Tasks \ {HungTask} : WF_vars(TaskStep(t)) /\ SF_vars(TaskWake(t, 1))
    /\ WF_vars(\E n \in 0..MaxPairs : GetTradingPairsOk(n))
    /\ WF_vars(InitializeProgressCompleted)
    /\ WF_vars(InitializeProgressTotal)
    /\ WF_vars(ExecuteReturn)

\* A future after its label block
TaskAfterLabel(t) ==
    \/ \E ok \in BOOLEAN : TaskFound(t, ok)
    \/ TaskAcquire(t)
    \/ \E d \in 0..1 : TaskWake(t, d)
    \/ \E klines \in KlineLists(task[t].sync_start_time, task[t].sync_end_time) :
          TaskFetchOk(t, klines)
    \/ TaskFetchErr(t)
    \/ TaskStoreOk(t)
    \/ TaskStoreErr(t)
    \/ \E ok \in BOOLEAN : TaskPublishedKlines(t, ok)
    \/ TaskSaveOk(t)
    \/ TaskSaveErr(t)
    \/ \E ok \in BOOLEAN : TaskPublishedPair(t, ok)

\* One process of sync_historical_data whose instrument refresh succeeds,
\* with the futures' label blocks and the iterations of the progress task
\* taken one atomic operation or await at a time
NextLabel ==
    \/ \E n \in 0..MaxPairs : SyncTradingPairsOk(n)
    \/ MainWithRateLimit
    \/ bin.main = "running" /\ exec.pc = "idle" /\ ExecuteCall
    \/ \E n \in 0..MaxPairs : GetTradingPairsOk(n)
    \/ InitializeProgressCompleted
    \/ InitializeProgressTotal
    \/ \E t \in Tasks : LabelStep(t)
    \/ \E t \in Tasks : TaskAfterLabel(t)
    \/ ExecuteReturn
    \/ DisplayStart
    \/ DisplayLoad
    \/ \E k \in 1..2 : DisplayLock(k)
    \/ DisplaySleep
    \/ DisplayWake
    \/ DisplayBreakLocked
    \/ MainReturn

\* The process starts on a database that holds no instrument
InitLabel == InitBin /\ registry = [s \in Symbols |-> None]

SpecLabel == InitLabel /\ [][NextLabel]_vars

RepoStep ==
    \/ \E pair \in RepoPairs : \E ok \in BOOLEAN : RepoSave(pair, ok)
    \/ \E pairs \in RepoPairLists : \E failing \in 1..(Len(pairs) + 1) :
          RepoSaveAll(pairs, failing)
    \/ \E symbol \in RepoSymbols : \E ok \in BOOLEAN : RepoFindBySymbol(symbol, ok)
    \/ \E ok \in BOOLEAN : RepoFindAll(ok)

\* The clients of one TradingPairRepositoryPostgres, one call at a time
SpecRepo == Init /\ [][RepoStep]_vars

NextRL ==
    \/ \E c \in Callers : Acquire(c)
    \/ Tick

SpecRL == Init /\ [][NextRL]_vars

SpecRLFair ==
    /\ SpecRL
    /\ \A c \in Callers : WF_vars(Acquire(c))
    /\ WF_vars(Tick)

\* -------------------------------------------------------- claims: engine

SomeFailed == [variant |-> "RequestError", msg |-> "Some trading pairs failed to sync"]

Succeeded == [variant |-> "Ok", msg |-> ""]

\* execute() has returned from its last lines, after discovery succeeded
ReturnedAfterDiscovery ==
    exec.pc = "returned" /\ exec.result \in {Succeeded, SomeFailed}

Counted == {t \in Live(task) : task[t].pc \in {"done", "skipped"}}

FetchFailed(t) == calls[t] # <<>> /\ Last(calls[t]) = "fetch_err"

StoreFailed(t) == calls[t] # <<>> /\ Last(calls[t]) = "append_err"

\* The futures that have yet to take a token from the rate limiter
AwaitsToken(t) == task[t].pc \in {"pending", "finding", "acquiring", "sleeping"}

\* A future failed at get_klines while the limiter still holds a token for
\* every sibling that may ask for one (the limiter running dry is the
\* subject of C9 and C10)
FetchFailedWithTokensLeft ==
    /\ exec.pc = "joining"
    /\ \E t \in Live(task) : task[t].pc = "failed" /\ FetchFailed(t)
    /\ tokens >= Cardinality({u \in Live(task) : AwaitsToken(u)})

C2_CompletedIsTotalAtReturn ==
    ReturnedAfterDiscovery => completed_tasks = total_tasks

\* C3  Progress bound: completed_tasks never exceeds total_tasks, and never
\* the number of futures of the run (each adds one at most).
C3_ProgressBound ==
    /\ completed_tasks <= total_tasks
    /\ (exec.pc = "joining" \/ ReturnedAfterDiscovery) =>
          completed_tasks <= Cardinality(Live(task))

\* Both futures of a pair have been counted.
C3_Witness ==
    /\ exec.pc = "joining"
    /\ total_tasks = NumIntervals
    /\ completed_tasks = total_tasks

\* No future of this call of execute() has gone past the skip test, so the
\* registry is as the previous call left it
NoneFetchedYet ==
    \A u \in Live(task) : task[u].pc \in {"pending", "finding", "skipped"}

\* The sync_start_time the future computes when find_by_symbol returns Ok
StartIfFound(t) ==
    DetermineSyncStartTime(FindBySymbol(registry, exec.pairs[t[1]].symbol, TRUE),
                           task[t].sync_end_time, Intervals[t[2]].duration)

\* C4  Idempotent resumption: in an execute() that follows one in which
\* every future fetched, stored and saved its pair, every future whose
\* find_by_symbol succeeds takes the sync_start_time >= sync_end_time skip
\* branch (so none goes on to acquire() and get_klines).
C4_SecondRunSkipsAll ==
    (prev.all_saved /\ NoneFetchedYet) =>
        \A t \in Live(task) :
            task[t].pc = "finding" =>
                AlreadyUpToDate(StartIfFound(t), task[t].sync_end_time)

SyncEnd(reg, s) == Unwrap(reg[s]).sync_end_time

\* C5  Watermark monotonicity: a save never lowers the sync_end_time the
\* registry holds for a pair.
C5_WatermarkMonotone ==
    [][\A s \in Symbols :
          (IsSome(registry[s]) /\ IsSome(SyncEnd(registry, s))) =>
             /\ IsSome(registry'[s])
             /\ IsSome(SyncEnd(registry', s))
             /\ Unwrap(SyncEnd(registry', s)) >= Unwrap(SyncEnd(registry, s))]_vars

\* C6  Safe rerun after partial failure: a future that failed (at fetch or
\* at store) in the previous execute(), while a sibling saved the pair, is
\* not skipped in this one, and its window starts no later than the window
\* that failed (or, the clock having moved on, than the lookback limit).
C6_FailedSpanRetried ==
    \A t \in Live(task) :
        (/\ IsSome(prev.failed_start[t])
         /\ NoneFetchedYet
         /\ task[t].pc = "finding"
         /\ IsSome(registry[exec.pairs[t[1]].symbol])) =>
           /\ ~AlreadyUpToDate(StartIfFound(t), task[t].sync_end_time)
           /\ StartIfFound(t) <= Max(Unwrap(prev.failed_start[t]),
                                     task[t].sync_end_time - Intervals[t[2]].duration)

\* C7  Store failure leaves the watermark alone: the step in which
\* save_klines fails writes nothing to the registry, the future fails, and
\* it makes no further call (no publish, no save).
C7_StoreFailureKeepsWatermark ==
    /\ [](\A t \in Tasks : \A i \in 1..Len(calls[t]) :
            calls[t][i] = "append_err" => i = Len(calls[t]) /\ task[t].pc = "failed")
    /\ [][\A t \in Tasks :
            (task[t].pc = "storing" /\ StoreFailed(t)') =>
               /\ registry' = registry
               /\ completed_tasks' = completed_tasks]_vars

\* save_klines failed for one future, after its sibling had saved the pair,
\* and execute() returned.
C7_Witness ==
    /\ exec.pc = "returned"
    /\ \E t \in Live(task) : StoreFailed(t)
    /\ \E s \in Symbols : IsSome(registry[s])

\* The sync_end_time the registry holds for the pair of future t, if any
WatermarkOf(t) ==
    LET row == registry[exec.pairs[t[1]].symbol]
    IN IF IsSome(row) THEN Unwrap(row).sync_end_time ELSE None

\* The earliest start the lookback of the interval of future t allows
LookbackLimit(t) == task[t].sync_end_time - Intervals[t[2]].duration

\* C12  First-sync lower bound: the sync_start_time a future computes is
\* never before sync_end_time - duration, and it is exactly that (and the
\* future is not skipped) when the registry holds no sync_end_time for the
\* pair.
C12_FirstSyncLowerBound ==
    [][\A t \in Tasks :
          (task[t].pc = "finding" /\ task'[t].pc # "finding") =>
             /\ task'[t].pc = "acquiring" =>
                   task'[t].sync_start_time >= LookbackLimit(t)
             /\ WatermarkOf(t) = None =>
                   /\ task'[t].pc = "acquiring"
                   /\ task'[t].sync_start_time = LookbackLimit(t)]_vars

\* A future whose pair has no record has computed its window and goes on to
\* fetch from the lookback limit.
C12_Witness ==
    \E t \in Live(task) :
        /\ task[t].pc = "acquiring"
        /\ WatermarkOf(t) = None
        /\ task[t].sync_start_time = LookbackLimit(t)

\* The row the registry holds for the pair of future t
RowOf(reg, t) == reg[exec.pairs[t[1]].symbol]

\* The step in which trading_pair_repo.save of future t returns Ok
SaveStep(t) == task[t].pc = "saving" /\ task'[t].pc = "publishing_pair"

\* C13  Watermark from candles: when the fetch of a future returned candles,
\* the row its save writes has sync_end_time equal to the close_time of the
\* last candle and sync_start_time equal to the sync_start_time the future
\* computed (the lookback limit on a first sync, by C12).
C13_WatermarkFromCandles ==
    [][\A t \in Tasks :
          (SaveStep(t) /\ task[t].klines # <<>>) =>
             /\ IsSome(RowOf(registry', t))
             /\ Unwrap(RowOf(registry', t)).sync_end_time = Some(Last(task[t].klines))
             /\ Unwrap(RowOf(registry', t)).sync_start_time = Some(task[t].sync_start_time)]_vars

\* The first future of a pair to save: it started at the lookback limit,
\* and the row holds a close_time that only a candle can have given.
C13_Witness ==
    \E t \in Live(task) :
        /\ task[t].pc = "publishing_pair"
        /\ \A u \in Live(task) \ {t} : task[u].pc \in {"pending", "finding", "acquiring"}
        /\ task[t].sync_start_time = LookbackLimit(t)
        /\ IsSome(RowOf(registry, t))
        /\ Unwrap(RowOf(registry, t)).sync_end_time = Some(task[t].sync_end_time + 1)
        /\ Unwrap(RowOf(registry, t)).sync_start_time = Some(task[t].sync_start_time)

\* C14  Watermark from an empty fetch: when the fetch of a future returned
\* no candle and the store and the registry save succeed, the row written
\* has sync_start_time and sync_end_time equal to the window the future
\* computed; neither is left unset.
C14_WatermarkFromEmptyFetch ==
    [][\A t \in Tasks :
          (SaveStep(t) /\ task[t].klines = <<>>) =>
             /\ IsSome(RowOf(registry', t))
             /\ Unwrap(RowOf(registry', t)).sync_end_time = Some(task[t].sync_end_time)
             /\ Unwrap(RowOf(registry', t)).sync_start_time = Some(task[t].sync_start_time)]_vars

\* A future that fetched nothing has saved, before any sibling, a row that
\* holds its window.
C14_Witness ==
    \E t \in Live(task) :
        /\ task[t].pc = "publishing_pair"
        /\ \A u \in Live(task) \ {t} : task[u].pc \in {"pending", "finding", "acquiring"}
        /\ exec.run = 1
        /\ IsSome(RowOf(registry, t))
        /\ Unwrap(RowOf(registry, t)).sync_end_time = Some(task[t].sync_end_time)
        /\ Unwrap(RowOf(registry, t)).sync_start_time = Some(task[t].sync_start_time)
        /\ task[t].sync_start_time < task[t].sync_end_time

\* C15  Earliest boundary is permanent: a save by a future that received at
\* least one candle leaves the sync_start_time of a row that has one as it
\* was.
C15_EarliestStartKept ==
    [][\A t \in Tasks :
          (/\ SaveStep(t)
           /\ task[t].klines # <<>>
           /\ IsSome(RowOf(registry, t))
           /\ IsSome(Unwrap(RowOf(registry, t)).sync_start_time)) =>
              Unwrap(RowOf(registry', t)).sync_start_time =
                 Unwrap(RowOf(registry, t)).sync_start_time]_vars

\* C16  Watermark ordering invariant: every row of the registry that has
\* both times set has sync_start_time <= sync_end_time.
C16_StartNotAfterEnd ==
    \A s \in Symbols :
        (/\ IsSome(registry[s])
         /\ IsSome(Unwrap(registry[s]).sync_start_time)
         /\ IsSome(Unwrap(registry[s]).sync_end_time)) =>
            Unwrap(Unwrap(registry[s]).sync_start_time) <=
               Unwrap(Unwrap(registry[s]).sync_end_time)

\* C17  Aggregate result: execute() returns from join_all only when every
\* one of the N*M futures has returned, and it returns the one error
\* RequestError("Some trading pairs failed to sync") if some future returned
\* an error, however many and whatever the cause, and Ok(()) otherwise.
C17_AggregateResult ==
    [][(exec.pc = "joining" /\ exec'.pc = "returned") =>
          /\ Cardinality(Live(task)) = Len(exec.pairs) * Len(Intervals)
          /\ \A t \in Live(task) : Terminal(task[t].pc)
          /\ (\E t \in Live(task) : task[t].pc = "failed") => exec'.result = SomeFailed
          /\ (\A t \in Live(task) : task[t].pc # "failed") => exec'.result = Succeeded]_vars

\* execute() returned the aggregate error after one future failed at
\* get_klines and another at save_klines.
C17_Witness ==
    /\ exec.pc = "returned"
    /\ exec.result = SomeFailed
    /\ \E t, u \in Live(task) : FetchFailed(t) /\ StoreFailed(u)

\* execute() has returned the error of get_trading_pairs
DiscoveryFailed ==
    exec.pc = "returned" /\ exec.result.msg = "exchangeInfo"

\* C18  Discovery failure fails fast: the step in which get_trading_pairs
\* fails returns from execute() without creating a future, taking a token,
\* writing the registry or touching total_tasks, completed_tasks and the
\* labels; no future of the call exists afterwards and none has made a call.
C18_DiscoveryFailsFast ==
    /\ [](DiscoveryFailed =>
            /\ Live(task) = {}
            /\ \A t \in Tasks : calls[t] = <<>>)
    /\ [][(exec.pc = "listing" /\ exec'.pc = "returned") =>
            /\ DiscoveryFailed'
            /\ UNCHANGED <<limiter, progress, registry, task, calls>>]_vars

\* The second call of execute() on an engine failed at discovery: the
\* counters still hold what the first call left, and the registry its rows.
C18_Witness ==
    /\ DiscoveryFailed
    /\ exec.run = 2
    /\ total_tasks = NumIntervals
    /\ completed_tasks = total_tasks
    /\ \E s \in Symbols : IsSome(registry[s])

\* C19  Distinguishable errors: the error execute() returns when discovery
\* fails is of another variant than the error it returns when some futures
\* failed.
C19_DistinguishableErrors ==
    DiscoveryFailed => exec.result.variant # SomeFailed.variant

\* C20  Publish failures are swallowed: whether the publish of
\* "klines:initialized" returns Ok or Err the future goes on to save the
\* pair, and whether the publish of "trading_pairs:initialized" returns Ok
\* or Err the future returns Ok(()) and is counted; neither step writes the
\* registry, and a future whose publish failed never fails for it.
C20_PublishFailuresSwallowed ==
    /\ [](\A t \in Tasks :
            ~task[t].klines_published => task[t].pc \in {"saving", "publishing_pair"})
    /\ [][\A t \in Tasks :
            /\ (task[t].pc = "publishing_klines" /\ task'[t] # task[t]) =>
                  /\ task'[t].pc = "saving"
                  /\ registry' = registry
                  /\ completed_tasks' = completed_tasks
            /\ (task[t].pc = "saving" /\ task'[t] # task[t] /\ ~task[t].klines_published) =>
                  task'[t].pc \in {"publishing_pair", "done"}
            /\ (task[t].pc = "publishing_pair" /\ task'[t] # task[t]) =>
                  /\ task'[t].pc = "done"
                  /\ registry' = registry
                  /\ completed_tasks' = completed_tasks + 1]_vars

\* The publish of "klines:initialized" failed and the future has since
\* saved the pair.
C20_Witness ==
    \E t \in Live(task) :
        /\ task[t].pc = "publishing_pair"
        /\ ~task[t].klines_published
        /\ Last(calls[t]) = "save_ok"
        /\ IsSome(RowOf(registry, t))

\* The step in which trading_pair_repo.save of future t returns Err
SaveErrStep(t) == task[t].pc = "saving" /\ calls'[t] = Append(calls[t], "save_err")

SaveFailed(t) == calls[t] # <<>> /\ Last(calls[t]) = "save_err"

AppendedOk(cl) == \E i \in 1..Len(cl) : cl[i] = "append_ok"

\* C21  Registry save failure does not fail the task: when save returns Err
\* the future returns Ok(()) and completed_tasks goes up by one, the candles
\* save_klines stored stay stored (nothing is called after the failed save),
\* the registry is as it was, and execute() does not count the future as
\* failed.
C21_SaveFailureDoesNotFailTask ==
    /\ [][\A t \in Tasks :
             SaveErrStep(t) =>
                /\ task'[t].pc = "done"
                /\ completed_tasks' = completed_tasks + 1
                /\ registry' = registry
                /\ AppendedOk(calls'[t])]_vars
    /\ [](\A t \in Live(task) :
             SaveFailed(t) => /\ task[t].pc = "done"
                              /\ AppendedOk(calls[t]))
    /\ []((/\ ReturnedAfterDiscovery
           /\ \A t \in Live(task) : SaveFailed(t) \/ task[t].pc = "skipped")
          => exec.result = Succeeded)

\* execute() returned Ok(()) although the save of a future returned Err
C21_Witness ==
    /\ exec.pc = "returned"
    /\ exec.result = Succeeded
    /\ \E t \in Live(task) : SaveFailed(t) /\ task[t].pc = "done"

\* The calls of a future that are calls of pub_sub.publish, by position
Publishes(cl) == {i \in 1..Len(cl) : cl[i] \in {KlinesTopic, PairTopic}}

\* C22  Event topics: every publish of the engine is on topic
\* "candles:ingested", directly after save_klines returned Ok, or on topic
\* "instrument:updated", directly after the registry save returned Ok; the
\* engine publishes on no other topic.
C22_EventTopics ==
    \A t \in Tasks : \A i \in Publishes(calls[t]) :
        \/ calls[t][i] = "candles:ingested" /\ i > 1 /\ calls[t][i - 1] = "append_ok"
        \/ calls[t][i] = "instrument:updated" /\ i > 1 /\ calls[t][i - 1] = "save_ok"

\* The rows of a table or a Vec that carry key k, by position
RowsOf(rows, k) == {i \in 1..Len(rows) : KeyOf(rows[i]) = k}

SavedKeys == {k \in Keys : IsSome(saved[k])}

\* One row per saved key, with the values of the last save of the key
OneRowPerKey(rows) ==
    \A k \in Keys :
        IF IsSome(saved[k])
        THEN \E i \in RowsOf(rows, k) : RowsOf(rows, k) = {i} /\ rows[i] = Unwrap(saved[k])
        ELSE RowsOf(rows, k) = {}

\* C23  Registry upsert: the table holds exactly one row per (symbol,
\* exchange_id) saved, carrying the values of the most recent save of that
\* key; find_by_symbol of the symbol of a saved key returns that row, and
\* None for a symbol never saved; find_all returns every saved key exactly
\* once.
C23_RegistryUpsert ==
    /\ OneRowPerKey(table)
    /\ (reply.op = "find_by_symbol" /\ reply.ok) =>
          IF \E k \in SavedKeys : k[1] = reply.symbol
          THEN \A k \in SavedKeys : k[1] = reply.symbol => reply.val = saved[k]
          ELSE reply.val = None
    /\ (reply.op = "find_all" /\ reply.ok) => OneRowPerKey(reply.val)

\* The registry holds a watermark (both times) for the pair of future t
HasWatermark(t) ==
    /\ IsSome(RowOf(registry, t))
    /\ IsSome(Unwrap(RowOf(registry, t)).sync_start_time)
    /\ IsSome(Unwrap(RowOf(registry, t)).sync_end_time)

\* C24  Watermark covers what was ingested: whenever the registry holds a
\* watermark for a pair, the span it marks has been requested and appended
\* for every interval.  Stated for the first execute() on an empty registry,
\* where nothing was appended before: every future of the pair that has
\* returned has had its save_klines return Ok, so that no future is skipped
\* (or fails) with the pair marked as ingested by a future of another
\* interval.
C24_WatermarkCoversIngested ==
    \A t \in Live(task) :
        (/\ exec.run = 1
         /\ Terminal(task[t].pc)
         /\ HasWatermark(t)) => AppendedOk(calls[t])

\* The values a stored sync_start_time can take
StoredStarts ==
    {None} \cup {Some(x) : x \in (0 - IntervalTable[Len(IntervalTable)].duration)..MaxUtc}

\* C25  Resumption rule: with a row whose sync_end_time is set,
\* determine_sync_start_time returns max(sync_end_time - duration, stored
\* sync_end_time): the window of the future never begins before the
\* sync_end_time it read, and the stored sync_start_time has no part in it
\* (any other stored sync_start_time gives the same result).
C25_ResumptionRule ==
    \A t \in Live(task) :
        (task[t].pc = "finding" /\ IsSome(WatermarkOf(t))) =>
            /\ StartIfFound(t) = Max(LookbackLimit(t), Unwrap(WatermarkOf(t)))
            /\ StartIfFound(t) >= Unwrap(WatermarkOf(t))
            /\ \A start \in StoredStarts :
                  DetermineSyncStartTime(
                      [ok |-> TRUE,
                       val |-> Some([Unwrap(RowOf(registry, t)) EXCEPT !.sync_start_time = start])],
                      task[t].sync_end_time, Intervals[t[2]].duration) = StartIfFound(t)

\* A future is about to resume from a stored sync_end_time that is later
\* than its lookback limit and earlier than its now, in a row whose
\* sync_start_time is another value
C25_Witness ==
    \E t \in Live(task) :
        /\ task[t].pc = "finding"
        /\ IsSome(WatermarkOf(t))
        /\ LookbackLimit(t) < Unwrap(WatermarkOf(t))
        /\ Unwrap(WatermarkOf(t)) < task[t].sync_end_time
        /\ StartIfFound(t) = Unwrap(WatermarkOf(t))
        /\ Unwrap(RowOf(registry, t)).sync_start_time # WatermarkOf(t)

\* The step in which find_by_symbol of future t returns
FoundStep(t) == task[t].pc = "finding" /\ task'[t].pc # "finding"

\* C26  Skip path: a future that computes sync_start_time >= sync_end_time
\* is skipped (it goes on to acquire() only with sync_start_time <
\* sync_end_time); the skip adds one to completed_tasks, takes no token,
\* leaves the registry as it is, and the future, having called nothing but
\* the label and find_by_symbol (no get_klines, save_klines, save or
\* publish), returns Ok(()) and takes no further step.
C26_SkipPath ==
    /\ [][\A t \in Tasks :
             FoundStep(t) =>
                /\ task'[t].pc \in {"skipped", "acquiring"}
                /\ task'[t].pc = "acquiring" =>
                      task'[t].sync_start_time < task[t].sync_end_time
                /\ task'[t].pc = "skipped" =>
                      /\ \/ StartIfFound(t) >= task[t].sync_end_time
                         \/ LookbackLimit(t) >= task[t].sync_end_time
                      /\ completed_tasks' = completed_tasks + 1
                      /\ tokens' = tokens
                      /\ registry' = registry
                      /\ calls'[t] = <<"label", "find">>]_vars
    /\ [][\A t \in Tasks :
             (task[t].pc = "skipped" /\ exec.pc = "joining") =>
                /\ task'[t] = task[t]
                /\ calls'[t] = calls[t]]_vars
    /\ []((/\ ReturnedAfterDiscovery
           /\ \A t \in Live(task) : task[t].pc \in {"skipped", "done"})
          => exec.result = Succeeded)

\* execute() returned Ok(()) with a future skipped and every token still in
\* the limiter
C26_Witness ==
    /\ exec.pc = "returned"
    /\ exec.result = Succeeded
    /\ completed_tasks = total_tasks
    /\ tokens = tokens_per_refill
    /\ \E t \in Live(task) : task[t].pc = "skipped" /\ calls[t] = <<"label", "find">>

FetchedOk(cl) == \E i \in 1..Len(cl) : cl[i] = "fetch_ok"

\* The step in which future t returns
ReturnStep(t) == ~Terminal(task[t].pc) /\ Terminal(task'[t].pc)

\* C27  Attempt counting: a future whose get_klines returned Ok adds one to
\* completed_tasks when it returns, whatever save_klines, the publishes and
\* the registry save returned; a future whose get_klines returned Err adds
\* nothing.
C27_AttemptCounting ==
    [][\A t \in Tasks :
          ReturnStep(t) =>
             /\ FetchedOk(calls'[t]) => completed_tasks' = completed_tasks + 1
             /\ FetchFailed(t)' => completed_tasks' = completed_tasks]_vars

\* The calls of a future that is not skipped, in the order of the code,
\* each with the outcomes it can have
StepCalls ==
    << {"label"}, {"find"}, {"acquire"}, {"fetch_ok", "fetch_err"},
       {"append_ok", "append_err"}, {KlinesTopic}, {"save_ok", "save_err"}, {PairTopic} >>

\* C28  Step order within one future: its calls are made in the order label,
\* find_by_symbol, acquire, get_klines, save_klines, publish of the klines
\* event, registry save, publish of the pair event, each after the one
\* before it has returned Ok (a publish: has returned), and completed_tasks
\* is incremented after the last of them, in the step in which the future
\* returns; in particular save is never called before save_klines returned
\* Ok.
C28_StepOrder ==
    /\ [](\A t \in Tasks :
             /\ Len(calls[t]) <= Len(StepCalls)
             /\ \A i \in 1..Len(calls[t]) :
                   /\ calls[t][i] \in StepCalls[i]
                   /\ i > 1 => calls[t][i - 1] \notin {"fetch_err", "append_err", "save_err"})
    /\ [][\A t \in Tasks :
             (ReturnStep(t) /\ task'[t].pc = "done") =>
                /\ Last(calls'[t]) \in {PairTopic, "save_err"}
                /\ completed_tasks' = completed_tasks + 1]_vars
    /\ [][\A t \in Tasks :
             (task[t].pc = "done" /\ exec.pc = "joining") =>
                calls'[t] = calls[t] /\ task'[t] = task[t]]_vars

\* A future has made all eight calls and returned
C28_Witness ==
    \E t \in Live(task) :
        /\ task[t].pc = "done"
        /\ Len(calls[t]) = Len(StepCalls)
        /\ completed_tasks >= 1

\* get_klines has been called by future t (it may not have returned yet)
FetchIssued(t) ==
    \/ task[t].pc = "fetching"
    \/ \E i \in 1..Len(calls[t]) : calls[t][i] \in {"fetch_ok", "fetch_err"}

\* The step in which future t calls get_klines
FetchCallStep(t) == task[t].pc # "fetching" /\ task'[t].pc = "fetching"

\* C29  Every fetch is paid for: a future calls get_klines only in the step
\* in which its acquire() returns with a token taken from the limiter, it
\* acquires once and calls get_klines once, so the get_klines calls of an
\* execute() never outnumber the tokens the limiter has handed out; the
\* step in which get_trading_pairs returns takes no token.
C29_EveryFetchPaid ==
    /\ [][\A t \in Tasks :
             FetchCallStep(t) =>
                /\ task[t].pc = "acquiring"
                /\ calls'[t] = Append(calls[t], "acquire")
                /\ \/ tokens > 0 /\ tokens' = tokens - 1
                   \/ /\ RefillDue(NowSecs(mono), last_refill)
                      /\ tokens' = tokens_per_refill - 1]_vars
    /\ [](\A t \in Tasks :
             /\ Cardinality({i \in 1..Len(calls[t]) : calls[t][i] = "acquire"}) <= 1
             /\ \A i \in 1..Len(calls[t]) :
                   calls[t][i] \in {"fetch_ok", "fetch_err"} =>
                      /\ i > 1
                      /\ calls[t][i - 1] = "acquire"
                      /\ \A j \in 1..Len(calls[t]) :
                            calls[t][j] \in {"fetch_ok", "fetch_err"} => j = i)
    /\ [](exec.pc \in {"joining", "returned"} =>
             Cardinality({t \in Tasks : FetchIssued(t)}) <= tokens_per_refill - tokens)
    /\ [][(exec.pc = "listing" /\ exec'.pc # "listing") => tokens' = tokens]_vars

\* Every future of the pair has called get_klines and the limiter has
\* handed out as many tokens
C29_Witness ==
    /\ exec.pc = "joining"
    /\ Live(task) # {}
    /\ \A t \in Live(task) : FetchIssued(t)
    /\ tokens = tokens_per_refill - Cardinality(Live(task))

\* C30  Task fan-out: when join_all gets the futures, after get_trading_pairs
\* returned N pairs, completed_tasks = 0 and total_tasks = N * M (M the
\* number of intervals) and no future has run yet (none makes a call before
\* that); there is exactly one future for each (pair, interval), none
\* missing and none twice.
C30_TaskFanOut ==
    /\ [][(exec.pc = "init_total" /\ exec'.pc = "joining") =>
             /\ completed_tasks' = 0
             /\ total_tasks' = Len(exec.pairs) * Len(Intervals)
             /\ \A t \in Live(task') : task'[t] = Pending /\ calls'[t] = <<>>]_vars
    /\ [](exec.pc \in {"listing", "init_completed", "init_total"} =>
             \A t \in Tasks : calls[t] = <<>>)
    /\ []((exec.pc = "joining" \/ ReturnedAfterDiscovery) =>
             LET futures == Futures(Len(exec.pairs)) IN
             /\ Len(futures) = total_tasks
             /\ \A i \in 1..Len(exec.pairs) : \A j \in 1..Len(Intervals) :
                   Cardinality({k \in 1..Len(futures) : futures[k] = <<i, j>>}) = 1
             /\ Live(task) = (1..Len(exec.pairs)) \X (1..Len(Intervals)))

\* join_all has just got the futures of a listing of at least one pair, in
\* the second call of execute()
C30_Witness ==
    /\ exec.pc = "joining"
    /\ exec.run = 2
    /\ Len(exec.pairs) >= 1
    /\ completed_tasks = 0
    /\ total_tasks = Len(exec.pairs) * Len(Intervals)
    /\ Cardinality(Live(task)) = total_tasks
    /\ \A t \in Live(task) : task[t] = Pending

\* How many of the calls of a future are among `names`
CountOf(cl, names) == Cardinality({i \in 1..Len(cl) : cl[i] \in names})

\* C31  No retries: in one execute() a future calls get_klines at most once,
\* save_klines at most once and the registry save at most once; a get_klines
\* or save_klines that returned Err is the last call the future makes, and
\* the future stays failed until execute() has returned.
C31_NoRetries ==
    /\ [](\A t \in Tasks :
             /\ CountOf(calls[t], {"fetch_ok", "fetch_err"}) <= 1
             /\ CountOf(calls[t], {"append_ok", "append_err"}) <= 1
             /\ CountOf(calls[t], {"save_ok", "save_err"}) <= 1
             /\ \A i \in 1..Len(calls[t]) :
                   calls[t][i] \in {"fetch_err", "append_err"} => i = Len(calls[t]))
    /\ [](\A t \in Live(task) :
             (exec.pc = "joining" /\ (FetchFailed(t) \/ StoreFailed(t))) =>
                task[t].pc = "failed")
    /\ [][\A t \in Tasks :
             (task[t].pc = "failed" /\ exec.pc = "joining") =>
                /\ task'[t].pc = "failed"
                /\ calls'[t] = calls[t]
                /\ exec'.pc = "returned" => exec'.result = SomeFailed]_vars

\* execute() returned the aggregate error: one future failed at get_klines
\* after its one call, its sibling made every call once
C31_Witness ==
    /\ exec.pc = "returned"
    /\ exec.result = SomeFailed
    /\ \E t \in Live(task) : task[t].pc = "failed" /\ FetchFailed(t)
    /\ \E u \in Live(task) : task[u].pc = "done" /\ Len(calls[u]) = Len(StepCalls)

\* C33  Events follow durable writes: the klines event of a future is
\* published only after its save_klines returned Ok, the pair event only
\* after its registry save returned Ok; a future whose save returned Err
\* publishes no pair event, and one whose save_klines returned Err publishes
\* nothing.
C33_EventsFollowWrites ==
    \A t \in Tasks :
        /\ \A i \in 1..Len(calls[t]) :
              /\ calls[t][i] = KlinesTopic =>
                    i > 1 /\ calls[t][i - 1] = "append_ok"
              /\ calls[t][i] = PairTopic =>
                    i > 1 /\ calls[t][i - 1] = "save_ok"
        /\ CountOf(calls[t], {"save_err"}) > 0 => CountOf(calls[t], {PairTopic}) = 0
        /\ CountOf(calls[t], {"append_err"}) > 0 =>
              CountOf(calls[t], {KlinesTopic, PairTopic}) = 0

\* A future has published the klines event and then had its save fail, and
\* its sibling has published both events
C33_Witness ==
    /\ \E t \in Live(task) :
          /\ SaveFailed(t)
          /\ CountOf(calls[t], {KlinesTopic}) = 1
          /\ task[t].pc = "done"
    /\ \E u \in Live(task) :
          /\ calls[u] # <<>>
          /\ Last(calls[u]) = PairTopic
          /\ CountOf(calls[u], {KlinesTopic}) = 1

\* The sync_start_time the future computes when find_by_symbol returns Err
StartIfFindErr(t) ==
    DetermineSyncStartTime(FindBySymbol(registry, exec.pairs[t[1]].symbol, FALSE),
                           task[t].sync_end_time, Intervals[t[2]].duration)

\* C38  Registry read errors fall back to the lookback: when find_by_symbol
\* returns Err, or Ok(None), the future computes sync_start_time =
\* sync_end_time - duration, is not skipped and does not fail: the step in
\* which find_by_symbol returns leaves the future skipped (the Ok result
\* said so) or on its way to acquire() with one of the two start times.
C38_FindErrFallsBack ==
    /\ [](\A t \in Live(task) :
             task[t].pc = "finding" =>
                /\ StartIfFindErr(t) = LookbackLimit(t)
                /\ ~AlreadyUpToDate(StartIfFindErr(t), task[t].sync_end_time)
                /\ RowOf(registry, t) = None =>
                      /\ StartIfFound(t) = LookbackLimit(t)
                      /\ ~AlreadyUpToDate(StartIfFound(t), task[t].sync_end_time))
    /\ [][\A t \in Tasks :
             FoundStep(t) =>
                /\ task'[t].pc \in {"acquiring", "skipped"}
                /\ task'[t].pc = "acquiring" =>
                      task'[t].sync_start_time \in {StartIfFound(t), StartIfFindErr(t)}
                /\ task'[t].pc = "skipped" =>
                      AlreadyUpToDate(StartIfFound(t), task[t].sync_end_time)
                /\ calls'[t] = Append(calls[t], "find")]_vars

\* The first future of an execute() goes on from the lookback limit although
\* the registry holds a later sync_end_time (no sibling has saved since, so
\* its find_by_symbol returned Err), and with the row saying it is up to date
C38_Witness ==
    \E t \in Live(task) :
        /\ task[t].pc \in {"acquiring", "fetching"}
        /\ \A u \in Live(task) \ {t} : task[u].pc = "pending"
        /\ IsSome(WatermarkOf(t))
        /\ Unwrap(WatermarkOf(t)) >= task[t].sync_end_time
        /\ task[t].sync_start_time = LookbackLimit(t)

\* The step in which SyncTradingPairsUseCase::execute returns
SyncTradingPairsStep == bin.main = "start" /\ bin'.main # "start"

\* C37  Instrument refresh keeps the watermark: the trading pairs sync that
\* main runs before the historical sync leaves the sync_start_time and
\* sync_end_time of every row the table already holds as they are.
C37_RefreshKeepsWatermark ==
    [][SyncTradingPairsStep =>
          \A s \in Symbols :
              IsSome(registry[s]) =>
                 /\ IsSome(registry'[s])
                 /\ Unwrap(registry'[s]).sync_start_time = Unwrap(registry[s]).sync_start_time
                 /\ Unwrap(registry'[s]).sync_end_time = Unwrap(registry[s]).sync_end_time]_vars

\* C36  Progress display terminates: once execute() has returned in the
\* binary (Ok, the aggregate error or a discovery error, zero pairs listed
\* or more), the progress task leaves its loop, progress_task.await returns
\* and main returns.
C36_DisplayTerminates ==
    (bin.main = "running" /\ exec.pc = "returned") ~> (bin.main = "exited")

\* A step of future t while join_all polls the futures
StepOf(t) ==
    /\ exec.pc = "joining"
    /\ exec'.pc = "joining"
    /\ task'[t] # task[t]

\* A TradingPair without its two sync times
WithoutSyncTimes(pair) == [pair EXCEPT !.sync_start_time = None, !.sync_end_time = None]

\* C40  A future touches only its own pair: no step of the future of (pair
\* A, interval i) changes the row of another symbol; the label it writes
\* and the row it reads and saves are those of A's symbol; only its save
\* changes A's row, and the row saved is the listed record of A but for
\* sync_start_time and sync_end_time.
C40_OwnPairOnly ==
    [][\A t \in Tasks :
          StepOf(t) =>
             /\ \A s \in Symbols \ {exec.pairs[t[1]].symbol} : registry'[s] = registry[s]
             /\ task[t].pc = "pending" => current_pair' = exec.pairs[t[1]].symbol
             /\ FoundStep(t) =>
                   \/ task'[t].pc = "skipped"
                   \/ task'[t].sync_start_time \in {StartIfFound(t), StartIfFindErr(t)}
             /\ IF SaveStep(t)
                THEN /\ IsSome(RowOf(registry', t))
                     /\ Unwrap(RowOf(registry', t)).symbol = exec.pairs[t[1]].symbol
                     /\ WithoutSyncTimes(Unwrap(RowOf(registry', t))) =
                           WithoutSyncTimes(exec.pairs[t[1]])
                ELSE registry' = registry]_vars

\* A future has saved the row of its pair, and the row an earlier process
\* saved for another symbol is still in the table
C40_Witness ==
    /\ \E t \in Live(task) :
          /\ CountOf(calls[t], {"save_ok"}) = 1
          /\ IsSome(RowOf(registry, t))
          /\ IsSome(Unwrap(RowOf(registry, t)).sync_end_time)
    /\ \E s \in Symbols :
          /\ \A i \in 1..Len(exec.pairs) : exec.pairs[i].symbol # s
          /\ registry[s] = Some(StoredRow(s))

\* Future t awaits a call of a collaborator
AwaitsCall(t) ==
    task[t].pc \in {"finding", "fetching", "storing", "publishing_klines", "saving",
                    "publishing_pair"}

\* C32  A hung call stalls only its own future: whether or not the call a
\* future awaits ever returns, every other future whose own calls return
\* reaches its terminal state (the limiter holding a token for each future
\* that has yet to take one) and completed_tasks counts it if it returned
\* Ok; execute() alone waits for the hung future, returning only when that
\* one has returned too.
C32_HungCallStallsOwnTask ==
    /\ \A u \in Tasks \ {HungTask} :
          (/\ exec.pc = "joining"
           /\ task[u].pc # "absent"
           /\ tokens >= Cardinality({v \in Live(task) : AwaitsToken(v)}))
          ~> (Terminal(task[u].pc) /\ (task[u].pc # "failed" => u \in Counted))
    /\ []((exec.pc = "joining" /\ AwaitsCall(HungTask)) =>
             completed_tasks = Cardinality(Counted \ {HungTask}))
    /\ [][(exec.pc = "joining" /\ exec'.pc = "returned" /\ HungTask \in Live(task)) =>
             Terminal(task[HungTask].pc)]_vars

\* The future HungTask awaits get_klines while every other future has
\* returned and execute() waits in join_all
C32_Witness ==
    /\ exec.pc = "joining"
    /\ task[HungTask].pc = "fetching"
    /\ \A u \in Live(task) \ {HungTask} : Terminal(task[u].pc)
    /\ completed_tasks = Cardinality(Live(task)) - 1

Running == exec.pc \in {"listing", "init_completed", "init_total", "joining"}

\* C10  execute() terminates: with every awaited call returning and the
\* clock advancing, a call of execute() eventually returns, also when more
\* futures need a token than the limiter holds.
C10_ExecuteReturns == Running ~> (exec.pc = "returned")

\* ------------------------------------------------------- claims: limiter

\* The returns of acquire() that fall in the span of one refill interval that
\* starts at the i-th return.
GrantsInSpanFrom(i) ==
    {j \in 1..Len(grants) :
        /\ grants[j] >= grants[i]
        /\ (grants[j] - grants[i]) * TickSecs < RefillIntervalSecs}

\* C8  Rate limiter bound: no span of one refill interval holds more returns
\* of acquire() than the limiter's capacity, for any number of callers.
C8_RateLimiterBound ==
    \A i \in 1..Len(grants) :
        Cardinality(GrantsInSpanFrom(i)) <= tokens_per_refill

\* The bucket was drained within one span, a refill interval has since
\* passed, and a caller polling after it found no token.
C8_Witness ==
    /\ Len(grants) = tokens_per_refill
    /\ mono * TickSecs >= RefillIntervalSecs
    /\ \E c \in Callers : rl[c].pc = "sleep" /\ rl[c].cur = 0

\* C11  Token-count invariant: 0 <= tokens <= capacity in every state, under
\* any interleaving of the atomic operations of concurrent acquire() calls.
C11_TokenCount == tokens >= 0 /\ tokens <= tokens_per_refill

\* Two callers read the same positive count, one took the last token, and
\* the other is about to compare_exchange with its stale reading.
C11_Witness ==
    /\ tokens = 0
    /\ \E c \in Callers : rl[c].pc = "cas" /\ rl[c].cur > 0
    /\ grants # <<>>

\* The mutex thread x is at the lock().await of, or "none"
Wants(x) ==
    IF x = ProgressTask
    THEN CASE bin.display = "looping" /\ lab.r = "loaded" -> ReaderLocks(1)
           [] bin.display = "looping" /\ lab.r = "locked1" -> ReaderLocks(2)
           [] OTHER -> "none"
    ELSE CASE lab.w[x] = "waiting" -> "current_pair"
           [] lab.w[x] = "pair_written" -> "current_interval"
           [] OTHER -> "none"

\* Thread x awaits a mutex that is held
Blocked(x) == Wants(x) # "none" /\ lab.held[Wants(x)] # {}

\* No thread awaits a mutex whose holder awaits a mutex that is held
NoLabelDeadlock ==
    \A x \in Threads : Blocked(x) => \A y \in lab.held[Wants(x)] : ~Blocked(y)

ReaderHoldsBoth ==
    lab.held.current_pair = {ProgressTask} /\ lab.held.current_interval = {ProgressTask}

\* A future locks current_pair, then current_interval, and drops a guard
\* only when it holds both and has written both strings
WritersHoldBoth ==
    [][\A t \in Tasks :
          /\ t \in lab'.held.current_interval => t \in lab'.held.current_pair
          /\ (current_pair' # current_pair \/ lab'.pair_by # lab.pair_by) =>
                (lab'.pair_by \in Tasks /\ lab.held.current_pair = {lab'.pair_by})
          /\ (current_interval' # current_interval \/ lab'.interval_by # lab.interval_by) =>
                /\ lab'.interval_by \in Tasks
                /\ lab.held.current_pair = {lab'.interval_by}
                /\ lab.held.current_interval = {lab'.interval_by}
          /\ (t \in lab.held.current_pair /\ t \notin lab'.held.current_pair) =>
                /\ t \in lab.held.current_interval
                /\ lab.pair_by = t
                /\ lab.interval_by = t]_vars

\* The strings in the two mutexes are those one future wrote
LabelOf(t) ==
    /\ lab.pair_by = t
    /\ lab.interval_by = t
    /\ current_pair = exec.pairs[t[1]].symbol
    /\ current_interval = Intervals[t[2]].interval

\* C39 as stated  Label consistency and deadlock freedom: the futures write
\* the label by locking current_pair and then current_interval, holding
\* both until both are written, and the progress task locks them in the
\* same order; no interleaving deadlocks, and a progress task holding both
\* locks always sees a (pair, interval) that a single future wrote.
C39_LabelOfOneTask ==
    /\ WritersHoldBoth
    /\ [](Wants(ProgressTask) = "current_interval" =>
             lab.held.current_pair = {ProgressTask})
    /\ []NoLabelDeadlock
    /\ [](ReaderHoldsBoth => \E t \in Tasks : LabelOf(t))

\* C39 amended  As stated, but a progress task holding both locks sees
\* either a (pair, interval) that a single future wrote or, before any
\* future has written, the two empty strings SyncProgress was built with.
C39_LabelOfOneTaskOrNew ==
    /\ WritersHoldBoth
    /\ [](Wants(ProgressTask) = "current_interval" =>
             lab.held.current_pair = {ProgressTask})
    /\ []NoLabelDeadlock
    /\ [](ReaderHoldsBoth =>
             \/ \E t \in Tasks : LabelOf(t)
             \/ /\ lab.pair_by = SyncProgressNew
                /\ lab.interval_by = SyncProgressNew
                /\ current_pair = ""
                /\ current_interval = ""
                /\ \A t \in Tasks : lab.w[t] \in {"start", "waiting"})

\* The progress task holds both locks and sees the label of the second
\* future to write, which wrote over that of the first; no future is in its
\* label block
C39_Witness ==
    /\ ReaderHoldsBoth
    /\ \E t \in Tasks : \E u \in Tasks \ {t} :
          /\ LabelOf(u)
          /\ lab.w[t] = "released"
          /\ lab.w[u] = "released"

\* Thread c is at a store of the refill of lines 33-35, which the test of
\* line 31 let it reach
Refilling(c, pc) ==
    /\ rl[c].pc = pc
    /\ rl[c].now - rl[c].last >= RefillIntervalSecs

C35_NoTokenTwice ==
    /\ [][\A c \in Callers :
             (rl[c].pc = "cas" /\ rl'[c] # rl[c]) =>
                IF tokens = rl[c].cur
                THEN /\ rl'[c].pc = "idle"
                     /\ tokens' = tokens - 1
                     /\ Len(grants') = Len(grants) + 1
                ELSE /\ rl'[c].pc = "sleep"
                     /\ tokens' = tokens
                     /\ grants' = grants]_vars
    /\ [][\A c \in Callers :
             (rl[c].pc # "idle" /\ rl'[c].pc = "idle") =>
                /\ rl[c].pc = "cas"
                /\ tokens' = tokens - 1
                /\ \A d \in Callers \ {c} : rl'[d] = rl[d]]_vars
    /\ [](Len(grants) <= tokens_per_refill /\ tokens >= 0)

\* A caller loaded a positive count, lost its compare_exchange to another
\* caller that returned with the token, and sleeps before trying again
C35_Witness ==
    /\ \E c \in Callers : rl[c].pc = "sleep" /\ rl[c].cur > tokens
    /\ Len(grants) >= 1

\* C9  Rate limiter liveness: every call of acquire() eventually returns
\* (capacity >= 1, the clock advancing, every caller scheduled).
C9_AcquireReturns ==
    \A c \in Callers : (rl[c].pc = "read") ~> (rl[c].pc = "idle")

====
